---- MODULE Spec2Model ----
(***************************************************************************)
(* A model of repo2md (src/repo2md.py): RepositoryExporter's configuration *)
(* lookup, ignore-file loading, exclusion predicate, file admission and    *)
(* the os.walk driven export loop.                                         *)
(*                                                                         *)
(* Paths, patterns and ignore-file lines are sequences of one-character    *)
(* strings, so that str.startswith, os.path.join, os.path.relpath,         *)
(* os.path.splitext, str.lower, str.strip and fnmatch are computed on the  *)
(* characters as Python computes them.                                     *)
(***************************************************************************)
EXTENDS Integers, Sequences, FiniteSets, TLC

VARIABLES
    pc,             \* position of the program: see the actions
    run,            \* which invocation of the tool is running (1 or 2)
    now,            \* the wall clock, in seconds
    cfgFiles,       \* what lies at each candidate configuration path
    config_file,    \* the config_file argument: <<>> is None, <<p>> is p
    gitignoreFile,  \* what lies at <source>/.gitignore
    fstate,         \* per tree node: how stat and read of the file behave
    fsize,          \* per tree node: the size os.path.getsize reports
    srcExists,      \* whether the resolved source directory exists
    outInSource,    \* whether the output file is created in the walked root
    cloned,         \* whether clone_repository() has run
    exporter,       \* the fields of the RepositoryExporter object
    stack,          \* os.walk: directories still to be listed, next first
    files,          \* the file names of the current listing not yet handled
    root,           \* the directory of the current listing
    outputs,        \* the output files on disk: file name -> writes made
    args,           \* the command line: source, is_git, exclude_dirs, obey
    prevSections,   \* the file sections of the first invocation's document
    evaluated,      \* files passed to is_file_valid so far
    touched,        \* files stat-ed, opened or read so far
    dirsChecked,    \* directories passed to is_excluded by the walk
    wfaults,        \* output write failures injected so far
    wfailed,        \* a write to the output has failed in this run
    afterWfail,     \* files handled after a failed write of this run
    sectionFailed,  \* <<file, n>>: the n-th write of the file's section failed
    result          \* the value returned by the function under test

vars == <<pc, run, now, cfgFiles, config_file, gitignoreFile,
          fstate, fsize, srcExists, outInSource, cloned, exporter, stack,
          files, root, outputs, args, prevSections, evaluated, touched,
          dirsChecked, wfaults, wfailed, afterWfail, sectionFailed,
          result>>

----------------------------------------------------------------------------
(* Bounds of the model.                                                    *)

\* most output write failures injected in one behaviour
MaxWriteFaults == 1
\* most lines in a generated ignore file
MaxLines == 2

----------------------------------------------------------------------------
(* Strings as character sequences.                                         *)

NL == "\n"

Whitespace == {" ", "\t", NL, "\r"}

StartsWith(s, p) == Len(p) <= Len(s) /\ SubSeq(s, 1, Len(p)) = p

EndsWith(s, p) ==
    Len(p) <= Len(s) /\ SubSeq(s, Len(s) - Len(p) + 1, Len(s)) = p

\* str.rfind, 1-based; 0 when the character does not occur
RFind(s, c) ==
    LET hits == {i \in 1..Len(s) : s[i] = c}
    IN  IF hits = {} THEN 0 ELSE CHOOSE i \in hits : \A j \in hits : j <= i

UpperChars == <<"A","B","C","D","E","F","G","H","I","J","K","L","M",
                "N","O","P","Q","R","S","T","U","V","W","X","Y","Z">>
LowerChars == <<"a","b","c","d","e","f","g","h","i","j","k","l","m",
                "n","o","p","q","r","s","t","u","v","w","x","y","z">>

\* str.lower
Lower(s) ==
    [i \in 1..Len(s) |->
        IF \E k \in 1..26 : UpperChars[k] = s[i]
        THEN LowerChars[CHOOSE k \in 1..26 : UpperChars[k] = s[i]]
        ELSE s[i]]

\* str.strip
Strip(s) ==
    LET keep == {i \in 1..Len(s) : s[i] \notin Whitespace}
    IN  IF keep = {} THEN <<>>
        ELSE SubSeq(s, CHOOSE i \in keep : \A j \in keep : i <= j,
                       CHOOSE i \in keep : \A j \in keep : j <= i)

\* posixpath.join of two components
PathJoin(a, b) ==
    IF b # <<>> /\ b[1] = "/" THEN b
    ELSE IF a = <<>> \/ a[Len(a)] = "/" THEN a \o b
    ELSE a \o <<"/">> \o b

\* posixpath.splitext(p)[-1]: the extension from the last dot of the last
\* component, empty when that component has no dot or only leading dots
SplitextExt(p) ==
    LET sepIndex == RFind(p, "/")
        dotIndex == RFind(p, ".")
    IN  IF dotIndex > sepIndex
           /\ \E k \in (sepIndex + 1)..(dotIndex - 1) : p[k] # "."
        THEN SubSeq(p, dotIndex, Len(p))
        ELSE <<>>

\* the components of a path between slashes, empty components dropped
RECURSIVE SplitPath(_)
SplitPath(p) ==
    IF p = <<>> THEN <<>>
    ELSE LET slashes == {i \in 1..Len(p) : p[i] = "/"}
             cut == IF slashes = {} THEN Len(p) + 1
                    ELSE CHOOSE i \in slashes : \A j \in slashes : i <= j
             head == SubSeq(p, 1, cut - 1)
             rest == SplitPath(SubSeq(p, cut + 1, Len(p)))
         IN  IF head = <<>> THEN rest ELSE <<head>> \o rest

RECURSIVE JoinSegments(_)
JoinSegments(segs) ==
    IF segs = <<>> THEN <<>>
    ELSE IF Len(segs) = 1 THEN segs[1]
    ELSE segs[1] \o <<"/">> \o JoinSegments(Tail(segs))

RECURSIVE CommonPrefixLen(_, _)
CommonPrefixLen(a, b) ==
    IF a = <<>> \/ b = <<>> \/ a[1] # b[1] THEN 0
    ELSE 1 + CommonPrefixLen(Tail(a), Tail(b))

\* posixpath.relpath(path, start) for two absolute, normalised paths
Relpath(path, start) ==
    LET pl == SplitPath(path)
        sl == SplitPath(start)
        i == CommonPrefixLen(sl, pl)
        ups == [k \in 1..(Len(sl) - i) |-> <<".", ".">>]
        rel == ups \o SubSeq(pl, i + 1, Len(pl))
    IN  IF rel = <<>> THEN <<".">> ELSE JoinSegments(rel)

\* fnmatch.fnmatch on POSIX (normcase is the identity) for patterns made of
\* literal characters, '*' and '?': '*' matches any run of characters, the
\* slash included, '?' any one character, and the whole name must match
RECURSIVE Fnmatch(_, _)
Fnmatch(name, pat) ==
    IF pat = <<>> THEN name = <<>>
    ELSE IF pat[1] = "*"
         THEN Fnmatch(name, Tail(pat))
              \/ (name # <<>> /\ Fnmatch(Tail(name), pat))
    ELSE IF name = <<>> THEN FALSE
    ELSE IF pat[1] = "?" THEN Fnmatch(Tail(name), Tail(pat))
    ELSE name[1] = pat[1] /\ Fnmatch(Tail(name), Tail(pat))

----------------------------------------------------------------------------
(* Names used by the tree, the configurations and the ignore files.        *)

S_build  == <<"b","u","i","l","d">>
S_buildx == <<"b","u","i","l","d","x">>
S_sub    == <<"s","u","b">>
S_a_py   == <<"a",".","p","y">>
S_M_PY   == <<"M",".","P","Y">>
S_b_png  == <<"b",".","p","n","g">>
S_huge_py == <<"h","u","g","e",".","p","y">>
S_out_py == <<"o","u","t",".","p","y">>
S_gitignore == <<".","g","i","t","i","g","n","o","r","e">>

\* the decimal digits of a timestamp
Digits == <<"1","2","3","4","5","6","7","8","9">>

\* RepositoryExporter.generate_output_filename for the base name "r" when
\* the clock reads ts: f"{base_name}_{timestamp}.md"
GenerateOutputFilename(ts) == <<"r","_">> \o <<Digits[ts]>> \o <<".","m","d">>

E_py == <<".","p","y">>
E_md == <<".","m","d">>

----------------------------------------------------------------------------
(* Configuration lookup: RepositoryExporter.load_config.                   *)

\* a mapping given by its (key, value) pairs
MappingOf(pairs) ==
    [e \in {p[1] : p \in pairs} |-> (CHOOSE p \in pairs : p[1] = e)[2]]

DefaultExtensionPairs ==
    { <<<<".","p","y">>, "python">>,
      <<<<".","j","s">>, "javascript">>,
      <<<<".","t","s">>, "typescript">>,
      <<<<".","t","s","x">>, "react">>,
      <<<<".","j","s","x">>, "react">>,
      <<<<".","h","t","m","l">>, "html">>,
      <<<<".","c","s","s">>, "css">>,
      <<<<".","j","s","o","n">>, "json">>,
      <<<<".","y","a","m","l">>, "yaml">>,
      <<<<".","y","m","l">>, "yaml">>,
      <<<<".","m","d">>, "markdown">>,
      <<<<".","s","h">>, "bash">>,
      <<<<".","s","q","l">>, "sql">>,
      <<<<".","j","a","v","a">>, "java">>,
      <<<<".","c","p","p">>, "cpp">>,
      <<<<".","c">>, "c">>,
      <<<<".","h">>, "c">>,
      <<<<".","r","s">>, "rust">>,
      <<<<".","g","o">>, "go">> }

DefaultMaxFileSize == 1048576

\* the dictionary load_config returns when no candidate succeeds
DefaultConfig ==
    [max_file_size |-> DefaultMaxFileSize,
     excluded_dirs |-> <<<<".","v","e","n","v">>, <<"n","o","d","e","_","m","o","d","u","l","e","s">>, <<"_","_","p","y","c","a","c","h","e","_","_">>, <<".","g","i","t">>>>,
     included_extensions |-> MappingOf(DefaultExtensionPairs)]

\* dict.get(key, default)
Get(d, key, default) == IF key \in DOMAIN d THEN d[key] ELSE default

ExplicitPath == "custom.yaml"

\* the fallback locations, in the order load_config appends them
FallbackPaths ==
    <<"config.yaml", "~/.config/repo2md/config.yaml",
      "~/.repo2md/config.yaml", "/etc/repo2md/config.yaml">>

ConfigPaths == {ExplicitPath} \cup {FallbackPaths[k] : k \in 1..4}

NoDoc == [none |-> TRUE]

\* the documents the model places at the candidate paths: each path has its
\* own, told apart by max_file_size; the explicit one leaves out two keys
DocAt(path) ==
    IF path = ExplicitPath
    THEN [included_extensions |->
              MappingOf({<<E_py, "python">>, <<E_md, "markdown">>})]
    ELSE [max_file_size |->
              100 * (CHOOSE k \in 1..4 : FallbackPaths[k] = path),
          excluded_dirs |-> <<S_build>>,
          included_extensions |->
              MappingOf({<<E_py, "python">>, <<E_md, "markdown">>})]

\* what open() and yaml.safe_load make of a path:
\*   missing   open raises FileNotFoundError
\*   denied    open raises PermissionError
\*   malformed safe_load raises yaml.YAMLError
\*   null      safe_load returns None (an empty file)
\*   emptymap  safe_load returns {}
\*   dict      safe_load returns the mapping DocAt(path)
ConfigFileKinds ==
    {"missing", "denied", "malformed", "null", "emptymap", "dict"}

RECURSIVE TryConfigs(_, _)

\* load_config without "except yaml.YAMLError": a malformed candidate raises
TryConfigs_MalformedRaises(candidates, disk) ==
    IF candidates = <<>>
    THEN [raised |-> FALSE, value |-> DefaultConfig]
    ELSE LET kind == disk[candidates[1]]
         IN  IF kind \in {"denied", "malformed"}
             THEN [raised |-> TRUE, value |-> NoDoc]
             ELSE IF kind = "dict"
             THEN [raised |-> FALSE, value |-> DocAt(candidates[1])]
             ELSE TryConfigs(Tail(candidates), disk)

\* the try/except of one iteration of the loop, and the loop's continuation
TryConfigs(candidates, disk) ==
    IF candidates = <<>>
    THEN [raised |-> FALSE, value |-> DefaultConfig]
    ELSE LET kind == disk[candidates[1]]
         IN  IF kind = "denied"
             THEN [raised |-> TRUE, value |-> NoDoc]
             ELSE IF kind = "dict"
             THEN [raised |-> FALSE, value |-> DocAt(candidates[1])]
             ELSE TryConfigs(Tail(candidates), disk)

\* the candidate list load_config builds; config_file is <<>> for None and
\* <<p>> for the string p, and the empty string is falsy like None
PotentialConfigs(cf) ==
    (IF cf # <<>> /\ cf[1] # "" THEN <<cf[1]>> ELSE <<>>) \o FallbackPaths

LoadConfig(cf, disk) == TryConfigs(PotentialConfigs(cf), disk)

----------------------------------------------------------------------------
(* Ignore-file loading: RepositoryExporter.load_gitignore.                 *)

RECURSIVE GitignoreLines(_)

\* load_gitignore testing the stripped line for the comment mark
GitignoreLines_StripFirst(lines) ==
    IF lines = <<>> THEN <<>>
    ELSE LET line == Strip(lines[1])
             rest == GitignoreLines(Tail(lines))
         IN  IF line # <<>> /\ ~StartsWith(line, <<"#">>)
             THEN <<line>> \o rest
             ELSE rest

\* the list comprehension over the lines of the file
GitignoreLines(lines) ==
    IF lines = <<>> THEN <<>>
    ELSE LET line == lines[1]
             rest == GitignoreLines(Tail(lines))
         IN  IF Strip(line) # <<>> /\ ~StartsWith(line, <<"#">>)
             THEN <<Strip(line)>> \o rest
             ELSE rest

\* the local tree's root, the clone's temporary directory, a repository URL
LocalRoot == <<"/","r">>
TempDir == <<"/","t">>
RepoUrl == <<"g",":","x">>

\* os.path.exists(os.path.join(source, ".gitignore")): only the local tree
\* is on disk when the exporter is constructed; a URL names no local path
GitignoreExists(source, gi) ==
    PathJoin(source, S_gitignore) = PathJoin(LocalRoot, S_gitignore)
    /\ gi.kind # "absent"

\* gi.kind: "absent", "text" (gi.lines, each with its terminator) or
\* "undecodable" (reading raises, which load_gitignore logs and swallows)
LoadGitignore(source, gi) ==
    IF GitignoreExists(source, gi) /\ gi.kind = "text"
    THEN GitignoreLines(gi.lines)
    ELSE <<>>

----------------------------------------------------------------------------
(* The directory tree that is walked.                                      *)

\* Node 0 is the walked root.  A directory's listing is its children in
\* index order (the order the file system enumerates them in).
Nodes ==
    << [parent |-> 0, name |-> S_a_py,      dir |-> FALSE],
       [parent |-> 0, name |-> S_M_PY,      dir |-> FALSE],
       [parent |-> 0, name |-> S_b_png,     dir |-> FALSE],
       [parent |-> 0, name |-> S_huge_py,   dir |-> FALSE],
       [parent |-> 0, name |-> S_build,     dir |-> TRUE],
       [parent |-> 5, name |-> S_out_py,    dir |-> FALSE],
       [parent |-> 5, name |-> S_sub,       dir |-> TRUE],
       [parent |-> 7, name |-> S_out_py,    dir |-> FALSE],
       [parent |-> 0, name |-> S_buildx,    dir |-> TRUE],
       [parent |-> 9, name |-> S_out_py,    dir |-> FALSE],
       [parent |-> 0, name |-> S_gitignore, dir |-> FALSE],
       [parent |-> 0, name |-> GenerateOutputFilename(1), dir |-> FALSE],
       [parent |-> 0, name |-> GenerateOutputFilename(2), dir |-> FALSE] >>

NodeIds == 1..Len(Nodes)
FileNodes == {i \in NodeIds : ~Nodes[i].dir}
DirNodes == {i \in NodeIds : Nodes[i].dir}
GitignoreNode == CHOOSE i \in NodeIds : Nodes[i].name = S_gitignore

\* the nodes that are output files of the tool, when written into the root
OutputNodes ==
    {i \in NodeIds : \E ts \in 1..2 : Nodes[i].name = GenerateOutputFilename(ts)}

\* the ascending sequence of the members of a set of numbers
RECURSIVE SortedSeq(_)
SortedSeq(S) ==
    IF S = {} THEN <<>>
    ELSE LET m == CHOOSE x \in S : \A y \in S : x <= y
         IN  <<m>> \o SortedSeq(S \ {m})

\* whether node i is on disk: the ignore file when there is one, an output
\* file once created in the walked root, every other node always
Present(i, gi, outs, inSource) ==
    IF i = GitignoreNode THEN gi.kind # "absent"
    ELSE IF i \in OutputNodes THEN inSource /\ Nodes[i].name \in DOMAIN outs
    ELSE TRUE

\* os.scandir(d) as os.walk splits it: sub-directory and file entries
ListDirs(d, gi, outs, inSource) ==
    SortedSeq({i \in DirNodes :
                  Nodes[i].parent = d /\ Present(i, gi, outs, inSource)})

ListFiles(d, gi, outs, inSource) ==
    SortedSeq({i \in FileNodes :
                  Nodes[i].parent = d /\ Present(i, gi, outs, inSource)})

\* the path os.walk and export() build for a node: os.path.join(root, name)
RECURSIVE NodePath(_, _)
NodePath(i, top) ==
    IF i = 0 THEN top
    ELSE PathJoin(NodePath(Nodes[i].parent, top), Nodes[i].name)

\* the names from the walked root down to node i
RECURSIVE NodeSegments(_)
NodeSegments(i) ==
    IF i = 0 THEN <<>>
    ELSE Append(NodeSegments(Nodes[i].parent), Nodes[i].name)

\* the proper ancestors of node i below the walked root
RECURSIVE Ancestors(_)
Ancestors(i) ==
    IF i = 0 \/ Nodes[i].parent = 0 THEN {}
    ELSE {Nodes[i].parent} \cup Ancestors(Nodes[i].parent)

----------------------------------------------------------------------------
(* RepositoryExporter: construction, exclusion, admission.                 *)

\* RepositoryExporter.__init__; clock is datetime.now() in seconds, read for
\* the output file's name and for snapshot_time
NewExporter(a, cf, disk, gi, clock) ==
    LET config == LoadConfig(cf, disk).value
    IN  [source |-> a.source,
         output_file |-> GenerateOutputFilename(clock),
         is_git |-> a.is_git,
         temp_dir |-> <<>>,
         snapshot_time |-> clock,
         config |-> config,
         excluded_dirs |->
             IF a.exclude_dirs # <<>> THEN a.exclude_dirs
             ELSE Get(config, "excluded_dirs", <<>>),
         included_extensions |->
             Get(config, "included_extensions", MappingOf({})),
         obey_gitignore |-> a.obey_gitignore,
         gitignore_patterns |->
             IF a.obey_gitignore THEN LoadGitignore(a.source, gi) ELSE <<>>]

\* the body of is_excluded's loop over the ignore patterns, for one pattern
PatternExcludes(relative_path, pattern) ==
    IF EndsWith(pattern, <<"/">>)
    THEN LET stripped == SubSeq(pattern, 1, Len(pattern) - 1)
         IN  StartsWith(relative_path, stripped)
             \/ Fnmatch(relative_path, stripped)
    ELSE Fnmatch(relative_path, pattern)

\* RepositoryExporter.is_excluded
IsExcluded(ex, path) ==
    \/ \E k \in 1..Len(ex.excluded_dirs) :
           StartsWith(path, PathJoin(ex.source, ex.excluded_dirs[k]))
    \/ \E k \in 1..Len(ex.gitignore_patterns) :
           PatternExcludes(Relpath(path, ex.source), ex.gitignore_patterns[k])

\* how os.path.getsize, open and read behave on a file, per fstate:
\*   ok          all succeed
\*   missing     getsize raises FileNotFoundError
\*   noperm      getsize raises PermissionError
\*   ioerror     getsize raises another OSError
\*   vanished    getsize succeeds, open raises FileNotFoundError
\*   unreadable  getsize succeeds, open raises PermissionError
\*   undecodable getsize and open succeed, read raises UnicodeDecodeError
StatCaught == {"missing", "noperm"}
StatRaises == {"ioerror"}
ReadFails == {"vanished", "unreadable", "undecodable"}
FileStates == {"ok"} \cup StatCaught \cup StatRaises \cup ReadFails

\* is_file_valid with the size test written >= instead of >
IsFileValid_SizeOffByOne(ex, path, state, size) ==
    IF IsExcluded(ex, path) THEN "invalid"
    ELSE IF state \in StatCaught THEN "invalid"
    ELSE IF state \in StatRaises THEN "raise"
    ELSE IF size >= Get(ex.config, "max_file_size", DefaultMaxFileSize)
         THEN "invalid"
    ELSE IF Lower(SplitextExt(path)) \in DOMAIN ex.included_extensions
         THEN "valid"
    ELSE "invalid"

\* is_file_valid without its except clause: a failing getsize propagates
IsFileValid_StatUncaught(ex, path, state, size) ==
    IF IsExcluded(ex, path) THEN "invalid"
    ELSE IF state \in StatCaught \cup StatRaises THEN "raise"
    ELSE IF size > Get(ex.config, "max_file_size", DefaultMaxFileSize)
         THEN "invalid"
    ELSE IF Lower(SplitextExt(path)) \in DOMAIN ex.included_extensions
         THEN "valid"
    ELSE "invalid"

\* RepositoryExporter.is_file_valid: "valid", "invalid", or "raise" when an
\* exception leaves it
IsFileValid(ex, path, state, size) ==
    IF IsExcluded(ex, path) THEN "invalid"
    ELSE IF state \in StatCaught THEN "invalid"
    ELSE IF state \in StatRaises THEN "raise"
    ELSE IF size > Get(ex.config, "max_file_size", DefaultMaxFileSize)
         THEN "invalid"
    ELSE IF Lower(SplitextExt(path)) \in DOMAIN ex.included_extensions
         THEN "valid"
    ELSE "invalid"

\* RepositoryExporter.get_language_from_extension
GetLanguageFromExtension(ex, file_extension) ==
    Get(ex.included_extensions, file_extension, "")

\* source_dir of export(): <<>> stands for None
SourceDir(ex) ==
    IF ex.is_git THEN ex.temp_dir ELSE <<ex.source>>

----------------------------------------------------------------------------
(* The output document: one item per markdown_file.write call.             *)

CreateOutput(outs, name) ==
    [n \in DOMAIN outs \cup {name} |-> IF n = name THEN <<>> ELSE outs[n]]

\* the writes ws appended to the open output file
WriteOutput(outs, name, ws) ==
    [n \in DOMAIN outs |-> IF n = name THEN outs[n] \o ws ELSE outs[n]]

HeaderWrites(ex) ==
    << [w |-> "title"],
       [w |-> "time", t |-> ex.snapshot_time],
       [w |-> "separator"] >>

HeadingWrite(relative_path) == [w |-> "heading", path |-> relative_path]

\* a section block that also carries the snapshot time
BlockWrite_Timestamped(language, content) ==
    [w |-> "block", language |-> language,
     content |-> <<exporter.snapshot_time, content>>]

BlockWrite(language, content) ==
    [w |-> "block", language |-> language, content |-> content]

IsSectionWrite(item) == item.w \in {"heading", "block"}

\* the file sections of a document: what follows its header
Sections(doc) == SelectSeq(doc, IsSectionWrite)

\* what code_file.read() returns: a file's own content, and for an output
\* file of the tool the writes that have reached the disk.  The writer is
\* buffered, so of the file being written either nothing or everything
\* written so far may be on disk.
Contents(f, ex, outs) ==
    IF f \notin OutputNodes THEN {[file |-> f]}
    ELSE IF Nodes[f].name = ex.output_file
    THEN {[output |-> Nodes[f].name, flushed |-> k] :
             k \in {0, Len(outs[Nodes[f].name])}}
    ELSE {[output |-> Nodes[f].name, flushed |-> Len(outs[Nodes[f].name])]}

----------------------------------------------------------------------------
(* main() and export().                                                    *)

walkVars == <<stack, files, root>>
ghostVars == <<evaluated, touched, dirsChecked, afterWfail, sectionFailed>>
envVars == <<cfgFiles, config_file, gitignoreFile, fstate, fsize, srcExists,
             outInSource, args, now, run, prevSections, result>>

\* clone_repository(): tempfile.mkdtemp and git clone, which may fail
CloneRepository ==
    /\ pc = "ready"
    /\ exporter.is_git
    /\ ~cloned
    /\ cloned' = TRUE
    /\ \E ok \in BOOLEAN :
          /\ exporter' = [exporter EXCEPT !.temp_dir = <<TempDir>>]
          /\ pc' = IF ok THEN "ready" ELSE "clone_failed"
    /\ UNCHANGED <<envVars, walkVars, ghostVars, outputs, wfaults, wfailed>>

\* export() without the os.path.exists test: only None is rejected
SourceMissing_NoneOnly(source_dir, exists) == source_dir = <<>>

\* the test export() makes of the resolved directory: os.path.exists raises
\* on None and answers whether the directory is there otherwise
SourceMissing(source_dir, exists) == source_dir = <<>> \/ ~exists

\* export() up to the walk: resolve and test the source directory, open the
\* output file and write the header.  failAt names the step that raises, if
\* one does: 0 none, 1 the open, 2..4 the first to third header write.
ExportStart ==
    /\ pc = "ready"
    /\ LET source_dir == SourceDir(exporter)
           out == exporter.output_file
           header == HeaderWrites(exporter)
       IN  IF SourceMissing(source_dir, srcExists)
           THEN /\ pc' = "failed_source"
                /\ UNCHANGED <<outputs, wfaults, wfailed, walkVars>>
           ELSE \E failAt \in 0..4 :
                   /\ failAt # 0 => wfaults < MaxWriteFaults
                   /\ wfaults' = IF failAt = 0 THEN wfaults ELSE wfaults + 1
                   /\ wfailed' = (failAt # 0)
                   /\ pc' = IF failAt = 0 THEN "walking" ELSE "failed_output"
                   /\ outputs' =
                         IF failAt = 1 THEN outputs
                         ELSE WriteOutput(CreateOutput(outputs, out), out,
                                 IF failAt = 0 THEN header
                                 ELSE SubSeq(header, 1, failAt - 2))
                   /\ stack' = IF failAt = 0 THEN <<0>> ELSE stack
                   /\ UNCHANGED <<files, root>>
    /\ UNCHANGED <<envVars, ghostVars, exporter, cloned>>

\* export() without the assignment to dirs[:]: every sub-directory is kept
KeptDirs_NoPruning(ex, d, top, dirs) == dirs

\* the sub-directories of a listing that export() keeps in dirs[:]
KeptDirs(ex, d, top, dirs) ==
    SelectSeq(dirs,
        LAMBDA c : ~IsExcluded(ex, PathJoin(NodePath(d, top), Nodes[c].name)))

\* one step of os.walk with the pruning of dirs: list the next directory,
\* keep the sub-directories is_excluded does not reject, descend into those
\* after this listing's files
WalkDir ==
    /\ pc = "walking"
    /\ files = <<>>
    /\ stack # <<>>
    /\ LET d == Head(stack)
           top == SourceDir(exporter)[1]
           dirs == ListDirs(d, gitignoreFile, outputs, outInSource)
       IN  /\ root' = d
           /\ files' = ListFiles(d, gitignoreFile, outputs, outInSource)
           /\ stack' = KeptDirs(exporter, d, top, dirs) \o Tail(stack)
           /\ dirsChecked' =
                 dirsChecked \cup {dirs[k] : k \in 1..Len(dirs)}
    /\ UNCHANGED <<envVars, pc, exporter, cloned, outputs, wfaults, wfailed,
                   evaluated, touched, afterWfail, sectionFailed>>

\* the body of "for file in files" for the next file of the listing
ProcessFile ==
    /\ pc = "walking"
    /\ files # <<>>
    /\ LET f == Head(files)
           top == SourceDir(exporter)[1]
           out == exporter.output_file
           file_path == PathJoin(NodePath(root, top), Nodes[f].name)
           file_extension == Lower(SplitextExt(Nodes[f].name))
           valid == IsFileValid(exporter, file_path, fstate[f], fsize[f])
           relative_path == Relpath(file_path, top)
           language == GetLanguageFromExtension(exporter, file_extension)
       IN  /\ evaluated' = evaluated \cup {f}
           /\ touched' = IF IsExcluded(exporter, file_path) THEN touched
                         ELSE touched \cup {f}
           /\ afterWfail' = IF wfailed THEN afterWfail \cup {f}
                            ELSE afterWfail
           /\ \/ /\ valid = "raise"
                 /\ pc' = "failed_walk"
                 /\ UNCHANGED <<files, outputs, wfaults, wfailed,
                                sectionFailed>>
              \/ /\ \/ valid = "invalid"
                    \/ valid = "valid" /\ fstate[f] \in ReadFails
                 /\ files' = Tail(files)
                 /\ UNCHANGED <<pc, outputs, wfaults, wfailed, sectionFailed>>
              \/ /\ valid = "valid"
                 /\ fstate[f] \notin ReadFails
                 /\ files' = Tail(files)
                 /\ pc' = pc
                 /\ \E content \in Contents(f, exporter, outputs) :
                    \E fail \in 0..2 :
                       /\ fail # 0 => wfaults < MaxWriteFaults
                       /\ wfaults' = IF fail = 0 THEN wfaults ELSE wfaults + 1
                       /\ wfailed' = (wfailed \/ fail # 0)
                       /\ sectionFailed' =
                             IF fail = 0 THEN sectionFailed
                             ELSE sectionFailed \cup {<<f, fail>>}
                       /\ outputs' =
                             WriteOutput(outputs, out,
                                 SubSeq(<<HeadingWrite(relative_path),
                                          BlockWrite(language, content)>>,
                                        1, IF fail = 0 THEN 2 ELSE fail - 1))
    /\ UNCHANGED <<envVars, exporter, cloned, stack, root, dirsChecked>>

\* the walk is exhausted: the with block closes the output and export()
\* returns
ExportReturn ==
    /\ pc = "walking"
    /\ files = <<>>
    /\ stack = <<>>
    /\ pc' = "done"
    /\ UNCHANGED <<envVars, walkVars, ghostVars, exporter, cloned, outputs,
                   wfaults, wfailed>>

\* the tool is run a second time with the same command line, in the same
\* second or a later one: a new RepositoryExporter is constructed
SecondRun ==
    /\ pc = "done"
    /\ run = 1
    /\ run' = 2
    /\ \E later \in 0..1 : now' = now + later
    /\ prevSections' = Sections(outputs[exporter.output_file])
    /\ exporter' = NewExporter(args, config_file, cfgFiles, gitignoreFile, now')
    /\ pc' = "ready"
    /\ cloned' = FALSE
    /\ stack' = <<>>
    /\ files' = <<>>
    /\ root' = 0
    /\ evaluated' = {}
    /\ touched' = {}
    /\ dirsChecked' = {}
    /\ afterWfail' = {}
    /\ sectionFailed' = {}
    /\ wfailed' = FALSE
    /\ UNCHANGED <<cfgFiles, config_file, gitignoreFile, fstate, fsize,
                   srcExists, outInSource, args, result, outputs, wfaults>>

----------------------------------------------------------------------------
(* The export of one tree: the state after construction, then main().      *)

AllMissing == [p \in ConfigPaths |-> "missing"]

\* the configurations on disk the export is run with: none (the default is
\* used), ./config.yaml, and an explicit file that leaves keys out
ExportConfigs ==
    { [disk |-> AllMissing, arg |-> <<>>],
      [disk |-> [AllMissing EXCEPT !["config.yaml"] = "dict"], arg |-> <<>>],
      [disk |-> [AllMissing EXCEPT ![ExplicitPath] = "dict"],
       arg |-> <<ExplicitPath>>] }

Line(chars) == chars \o <<NL>>

\* the ignore files the export is run with
ExportGitignores ==
    { [kind |-> "absent", lines |-> <<>>],
      [kind |-> "text", lines |-> <<Line(S_build \o <<"/">>)>>],
      [kind |-> "text",
       lines |-> <<Line(<<"#"," ","c">>), Line(S_build),
                   Line(<<" ","*",".","p","n","g"," ">>)>>] }

\* the command lines: a local directory or a repository URL with -g, with
\* or without -e build, with or without -i
ExportArgs ==
    { [source |-> IF g THEN RepoUrl ELSE LocalRoot, is_git |-> g,
       exclude_dirs |-> e, obey_gitignore |-> o] :
         g \in BOOLEAN, e \in {<<>>, <<S_build>>}, o \in BOOLEAN }

AllOk == [i \in FileNodes |-> "ok"]

\* the files whose access may fail: M.PY in the root and buildx/out.py
FaultFiles ==
    {i \in FileNodes :
        \/ Nodes[i].name = S_M_PY
        \/ Nodes[i].parent # 0 /\ Nodes[Nodes[i].parent].name = S_buildx}

\* at most one file of the tree fails
FaultyStates ==
    {AllOk} \cup
    {[AllOk EXCEPT ![i] = k] : i \in FaultFiles, k \in FileStates \ {"ok"}}

\* sizes: M.PY is at the limit or one byte over, huge.py far over
Sizes(limit) ==
    { [i \in FileNodes |->
          IF Nodes[i].name = S_M_PY THEN limit + over
          ELSE IF Nodes[i].name = S_huge_py THEN 2 * DefaultMaxFileSize
          ELSE 50] : over \in 0..1 }

Idle ==
    /\ stack = <<>>
    /\ files = <<>>
    /\ root = 0
    /\ outputs = [n \in {} |-> <<>>]
    /\ prevSections = <<>>
    /\ evaluated = {}
    /\ touched = {}
    /\ dirsChecked = {}
    /\ afterWfail = {}
    /\ sectionFailed = {}
    /\ wfaults = 0
    /\ wfailed = FALSE
    /\ cloned = FALSE
    /\ run = 1
    /\ now = 1

Init ==
    /\ Idle
    /\ pc = "ready"
    /\ \E c \in ExportConfigs : cfgFiles = c.disk /\ config_file = c.arg
    /\ gitignoreFile \in ExportGitignores
    /\ args \in ExportArgs
    /\ fstate \in FaultyStates
    /\ srcExists \in BOOLEAN
    /\ outInSource = FALSE
    /\ exporter = NewExporter(args, config_file, cfgFiles, gitignoreFile, now)
    /\ fsize \in Sizes(Get(exporter.config, "max_file_size", DefaultMaxFileSize))
    /\ result = <<>>

Next ==
    \/ CloneRepository
    \/ ExportStart
    \/ WalkDir
    \/ ProcessFile
    \/ ExportReturn

Spec == Init /\ [][Next]_vars

----------------------------------------------------------------------------
(* Vocabulary of the properties.                                           *)

\* the directory export() walks, once it is resolved
Top == SourceDir(exporter)[1]

\* the document of the running invocation
CurrentDoc ==
    IF exporter.output_file \in DOMAIN outputs
    THEN outputs[exporter.output_file]
    ELSE <<>>

\* a node's path relative to the walked root, and its absolute path
RelOf(i) == JoinSegments(NodeSegments(i))
AbsOf(i) == Top \o <<"/">> \o RelOf(i)

HasHeading(i) ==
    \E k \in 1..Len(CurrentDoc) :
        CurrentDoc[k].w = "heading" /\ CurrentDoc[k].path = RelOf(i)

HasBlock(i) ==
    \E k \in 1..Len(CurrentDoc) :
        /\ CurrentDoc[k].w = "block"
        /\ "file" \in DOMAIN CurrentDoc[k].content
        /\ CurrentDoc[k].content.file = i

OnDisk(i) == Present(i, gitignoreFile, outputs, outInSource)

SizeLimit == Get(exporter.config, "max_file_size", DefaultMaxFileSize)

\* the four conditions of the admission rule, for a file of the tree
Qualifies(i) ==
    /\ OnDisk(i)
    /\ ~IsExcluded(exporter, AbsOf(i))
    /\ fsize[i] <= SizeLimit
    /\ Lower(SplitextExt(Nodes[i].name)) \in DOMAIN exporter.included_extensions

\* no directory between the root and the file is excluded
AncestorsKept(i) ==
    \A a \in Ancestors(i) : ~IsExcluded(exporter, AbsOf(a))

----------------------------------------------------------------------------
(* Claims about the export of one tree, under Spec.                        *)

\* C1 as stated: after export() completes, a file has a section iff it is a
\* regular file of the tree, not excluded, within the size limit and of an
\* included extension.  Taken over the files that are on disk and can be
\* stat-ed, in runs where no output write failed.
C1_Original ==
    (pc = "done" /\ ~wfailed) =>
        \A i \in FileNodes :
            fstate[i] \in {"ok", "unreadable", "undecodable"} =>
                (HasHeading(i) <=> Qualifies(i))

\* C1 amended: after export() completes, a file has a section heading iff
\* it qualifies (on disk, is_excluded false, size at or under the limit,
\* lowercased extension included), no directory above it is excluded, its
\* size and content could be read, and the write of its heading succeeded.
C1_Admission ==
    pc = "done" =>
        \A i \in FileNodes :
            HasHeading(i) <=>
                /\ Qualifies(i)
                /\ AncestorsKept(i)
                /\ fstate[i] = "ok"
                /\ <<i, 1>> \notin sectionFailed

\* a completed export with a section for a file exactly at the size limit,
\* and a qualifying file left out because a directory above it was pruned
C1_Witness ==
    /\ pc = "done"
    /\ \E i \in FileNodes :
          HasHeading(i) /\ fsize[i] = SizeLimit /\ Nodes[i].name = S_M_PY
    /\ \E i \in FileNodes :
          Qualifies(i) /\ ~AncestorsKept(i) /\ ~HasHeading(i)

\* C2 as stated: in local and in remote mode alike, a file under a
\* directory (directly beneath the walked root) whose name is an entry of
\* excluded_dirs has no section in the output.
C2_ExcludedDirFilesAbsent ==
    pc = "done" =>
        \A i \in FileNodes :
            (/\ Len(NodeSegments(i)) >= 2
             /\ \E k \in 1..Len(exporter.excluded_dirs) :
                   exporter.excluded_dirs[k] = NodeSegments(i)[1])
            => ~HasHeading(i)

\* C3 as stated: the ignore pattern 'build/' excludes build/out.py and
\* build/sub/out.py and not buildx/out.py, and the excluded directory
\* 'build' does not exclude the sibling buildx, when no other rule matches.
\* Stated of the exporter once the walk has passed buildx to is_excluded.
C3_DirectoryBoundary ==
    LET ex == exporter
        path(segs) == PathJoin(ex.source, JoinSegments(segs))
        dirs == {ex.excluded_dirs[k] : k \in 1..Len(ex.excluded_dirs)}
    IN  (\E d \in dirsChecked : Nodes[d].name = S_buildx) =>
        /\ (/\ ex.gitignore_patterns = <<S_build \o <<"/">> >>
            /\ dirs \cap {S_build, S_buildx} = {})
           => /\ IsExcluded(ex, path(<<S_build, S_out_py>>))
              /\ IsExcluded(ex, path(<<S_build, S_sub, S_out_py>>))
              /\ ~IsExcluded(ex, path(<<S_buildx, S_out_py>>))
        /\ (/\ ex.gitignore_patterns = <<>>
            /\ dirs = {S_build})
           => /\ ~IsExcluded(ex, path(<<S_buildx>>))
              /\ ~IsExcluded(ex, path(<<S_buildx, S_out_py>>))

\* C5: while the resolved source directory is missing (it does not exist,
\* or it is None because nothing was cloned), no output file exists, no
\* directory has been listed and no file examined.
C5_MissingSourceNoOutput ==
    (~srcExists \/ (exporter.is_git /\ exporter.temp_dir = <<>>)) =>
        /\ DOMAIN outputs = {}
        /\ dirsChecked = {}
        /\ evaluated = {}
        /\ stack = <<>>
        /\ pc \in {"ready", "clone_failed", "failed_source"}

\* export() was called on a missing directory and has failed
C5_Witness ==
    /\ pc = "failed_source"
    /\ ~srcExists
    /\ ~exporter.is_git
    /\ DOMAIN outputs = {}

\* C8: no file below a directory for which is_excluded is true is ever
\* passed to is_file_valid, stat-ed, opened or read.
C8_PrunedNeverEvaluated ==
    pc \in {"walking", "done", "failed_walk"} =>
        \A f \in FileNodes : \A d \in Ancestors(f) :
            IsExcluded(exporter, AbsOf(d)) =>
                f \notin evaluated /\ f \notin touched

\* the walk met an excluded directory, finished, and left a file below it
\* alone while evaluating others
C8_Witness ==
    /\ pc = "done"
    /\ evaluated # {}
    /\ \E f \in FileNodes : \E d \in Ancestors(f) :
          /\ d \in dirsChecked
          /\ IsExcluded(exporter, AbsOf(d))
          /\ f \notin evaluated

\* C9 as stated: once a write to the output has failed, export() has
\* failed and no file is handled afterwards.
C9_OutputFailureFatal ==
    wfailed => (pc = "failed_output" /\ afterWfail = {})

\* C10: when the per-file failures are of the kinds named (missing,
\* permission denied, undecodable, vanished), the walk never raises, no
\* failing file has a heading or a block, and at the end every other
\* admissible file whose section writes succeeded has both.
C10_PerFileFailureSkipped ==
    (\A i \in FileNodes : fstate[i] \notin StatRaises) =>
        /\ pc # "failed_walk"
        /\ pc \in {"walking", "done"} =>
              \A i \in FileNodes :
                  fstate[i] # "ok" => ~HasHeading(i) /\ ~HasBlock(i)
        /\ pc = "done" =>
              \A i \in FileNodes :
                  (/\ fstate[i] = "ok"
                   /\ Qualifies(i)
                   /\ AncestorsKept(i)
                   /\ \A n \in 1..2 : <<i, n>> \notin sectionFailed)
                  => HasHeading(i) /\ HasBlock(i)

\* M.PY qualified but could not be read; a.py before it and buildx/out.py
\* after it have their sections
C10_Witness ==
    /\ pc = "done"
    /\ \E i, j, h \in FileNodes :
          /\ Nodes[i].name = S_M_PY
          /\ fstate[i] \in ReadFails
          /\ Qualifies(i)
          /\ i \in touched
          /\ Nodes[j].name = S_a_py
          /\ HasBlock(j)
          /\ Nodes[h].parent # 0
          /\ HasBlock(h)

----------------------------------------------------------------------------
(* load_config as a function of the files at the candidate paths.          *)

NotExporting ==
    /\ Idle
    /\ fstate = AllOk
    /\ fsize = [i \in FileNodes |-> 50]
    /\ srcExists = TRUE
    /\ outInSource = FALSE
    /\ exporter = NoDoc

InitConfig ==
    /\ NotExporting
    /\ pc = "load_config"
    /\ cfgFiles \in [ConfigPaths -> ConfigFileKinds]
    /\ config_file \in {<<>>, <<"">>, <<ExplicitPath>>}
    /\ gitignoreFile = [kind |-> "absent", lines |-> <<>>]
    /\ args = [source |-> LocalRoot, is_git |-> FALSE, exclude_dirs |-> <<>>,
               obey_gitignore |-> FALSE]
    /\ result = [raised |-> FALSE, value |-> NoDoc]

\* self.config = self.load_config(config_file)
CallLoadConfig ==
    /\ pc = "load_config"
    /\ result' = LoadConfig(config_file, cfgFiles)
    /\ pc' = "config_returned"
    /\ UNCHANGED <<run, now, cfgFiles, config_file, gitignoreFile, fstate,
                   fsize, srcExists, outInSource, cloned, exporter, walkVars,
                   outputs, args, prevSections, ghostVars, wfaults, wfailed>>

NextConfig == CallLoadConfig

SpecConfig == InitConfig /\ [][NextConfig]_vars

\* the candidates in the order the claim gives them
C4_Order ==
    (IF config_file \in {<<>>, <<"">>} THEN <<>> ELSE config_file)
    \o <<"config.yaml", "~/.config/repo2md/config.yaml",
         "~/.repo2md/config.yaml", "/etc/repo2md/config.yaml">>

C4_Skipped == {"missing", "null", "emptymap", "malformed"}

\* C4: load_config returns the document of the first candidate, in the
\* fixed order, that parses to a non-empty document, every missing, empty
\* or malformed candidate before it being skipped without raising; when
\* every candidate is missing, empty or malformed it returns the default.
C4_FirstNonEmptyWins ==
    pc = "config_returned" =>
        LET n == Len(C4_Order)
            good == {k \in 1..n :
                        /\ cfgFiles[C4_Order[k]] = "dict"
                        /\ \A j \in 1..(k - 1) :
                              cfgFiles[C4_Order[j]] \in C4_Skipped}
        IN  /\ good # {} =>
                  /\ ~result.raised
                  /\ \A k \in good : result.value = DocAt(C4_Order[k])
            /\ (\A k \in 1..n : cfgFiles[C4_Order[k]] \in C4_Skipped) =>
                  /\ ~result.raised
                  /\ result.value = DefaultConfig
                  /\ result.value.max_file_size = 1048576
                  /\ result.value.included_extensions[E_py] = "python"

\* a malformed explicit file with a valid ./config.yaml, whose document is
\* what load_config returned although later candidates are valid too
C4_Witness ==
    /\ pc = "config_returned"
    /\ config_file = <<ExplicitPath>>
    /\ cfgFiles[ExplicitPath] = "malformed"
    /\ cfgFiles["config.yaml"] = "dict"
    /\ cfgFiles["/etc/repo2md/config.yaml"] = "dict"
    /\ result.value = DocAt("config.yaml")

----------------------------------------------------------------------------
(* load_gitignore as a function of the ignore file.                        *)

\* the texts of the lines an ignore file is made of
IgnoreLineTexts ==
    { S_build \o <<"/">>, <<"*",".","p","n","g">>, <<>>, <<" ">>,
      <<"#","c">>, <<" ","#","c">>, <<" ","x"," ">> }

\* the files of up to MaxLines lines; the last line may lack its terminator
\* (InitIgnore drops the files whose unterminated last line would be empty)
IgnoreFiles ==
    { [kind |-> "text",
       lines |-> [k \in 1..Len(texts) |->
                     IF k = Len(texts) /\ ~terminated THEN texts[k]
                     ELSE Line(texts[k])]] :
        texts \in UNION {[1..n -> IgnoreLineTexts] : n \in 0..MaxLines},
        terminated \in BOOLEAN }

InitIgnore ==
    /\ NotExporting
    /\ pc = "load_gitignore"
    /\ cfgFiles = AllMissing
    /\ config_file = <<>>
    /\ gitignoreFile \in
          {f \in IgnoreFiles :
              \A k \in 1..Len(f.lines) : f.lines[k] # <<>>}
          \cup {[kind |-> "absent", lines |-> <<>>],
                [kind |-> "undecodable", lines |-> <<>>]}
    /\ args \in {a \in ExportArgs : a.obey_gitignore /\ a.exclude_dirs = <<>>}
    /\ result = <<>>

\* self.gitignore_patterns = self.load_gitignore()
CallLoadGitignore ==
    /\ pc = "load_gitignore"
    /\ result' = LoadGitignore(args.source, gitignoreFile)
    /\ pc' = "gitignore_returned"
    /\ UNCHANGED <<run, now, cfgFiles, config_file, gitignoreFile, fstate,
                   fsize, srcExists, outInSource, cloned, exporter, walkVars,
                   outputs, args, prevSections, ghostVars, wfaults, wfailed>>

NextIgnore == CallLoadGitignore

SpecIgnore == InitIgnore /\ [][NextIgnore]_vars

\* a line without its terminator
Chomp(line) ==
    IF line # <<>> /\ line[Len(line)] = NL
    THEN SubSeq(line, 1, Len(line) - 1)
    ELSE line

IsBlank(line) == \A k \in 1..Len(line) : line[k] \in Whitespace

\* the lines of the ignore file that load_gitignore can see
C7_Lines ==
    IF args.source = LocalRoot /\ gitignoreFile.kind = "text"
    THEN gitignoreFile.lines
    ELSE <<>>

C7_KeptVerbatim(line) == ~IsBlank(line) /\ line[1] # "#"

C7_FirstNonBlank(line) ==
    line[CHOOSE k \in 1..Len(line) :
            /\ line[k] \notin Whitespace
            /\ \A j \in 1..(k - 1) : line[j] \in Whitespace]

\* C7 as stated: the result is, in file order, the lines that are not blank
\* and do not start with '#', each verbatim apart from its terminator; and
\* no line whose first non-blank character is '#' is returned.
C7_Original ==
    pc = "gitignore_returned" =>
        LET kept == SelectSeq(C7_Lines, C7_KeptVerbatim)
        IN  /\ result = [k \in 1..Len(kept) |-> Chomp(kept[k])]
            /\ \A k \in 1..Len(C7_Lines) :
                  (~IsBlank(C7_Lines[k])
                   /\ C7_FirstNonBlank(C7_Lines[k]) = "#")
                  => \A r \in 1..Len(result) :
                        result[r] \notin {Chomp(C7_Lines[k]),
                                          Strip(C7_Lines[k])}

\* C7 amended: the result is, in file order, the lines that are not blank
\* and whose first character is not '#', each with its leading and
\* trailing whitespace removed; so a line with whitespace before '#' is
\* returned, as a pattern starting with '#'.  An absent file gives the
\* empty sequence.
C7_StrippedLines ==
    pc = "gitignore_returned" =>
        LET kept == SelectSeq(C7_Lines, C7_KeptVerbatim)
            lead == {k \in 1..Len(C7_Lines) :
                        /\ ~IsBlank(C7_Lines[k])
                        /\ C7_Lines[k][1] \in Whitespace
                        /\ C7_FirstNonBlank(C7_Lines[k]) = "#"}
        IN  /\ Len(result) = Len(kept)
            /\ \A k \in 1..Len(kept) :
                  /\ result[k] # <<>>
                  /\ result[k][1] \notin Whitespace
                  /\ result[k][Len(result[k])] \notin Whitespace
                  /\ \E a, b \in 0..Len(kept[k]) :
                        /\ a + Len(result[k]) + b = Len(kept[k])
                        /\ SubSeq(kept[k], a + 1, a + Len(result[k]))
                              = result[k]
                        /\ IsBlank(SubSeq(kept[k], 1, a))
                        /\ IsBlank(SubSeq(kept[k], Len(kept[k]) - b + 1,
                                          Len(kept[k])))
            /\ \A k \in lead :
                  \E r \in 1..Len(result) :
                      result[r][1] = "#" /\ C7_Lines[k][1] # "#"
            /\ gitignoreFile.kind = "absent" => result = <<>>

\* an ignore file with a padded pattern and an indented comment was loaded
C7_Witness ==
    /\ pc = "gitignore_returned"
    /\ gitignoreFile.kind = "text"
    /\ args.source = LocalRoot
    /\ gitignoreFile.lines = <<Line(<<" ","x"," ">>), Line(<<" ","#","c">>)>>
    /\ result = << <<"x">>, <<"#","c">> >>

----------------------------------------------------------------------------
(* The tool run twice on one tree with one command line.                   *)

\* as Init, over an existing source whose files do not change between the
\* runs; a local source may have the output written into the walked root
InitTwice ==
    /\ Idle
    /\ pc = "ready"
    /\ \E c \in ExportConfigs : cfgFiles = c.disk /\ config_file = c.arg
    /\ gitignoreFile \in ExportGitignores
    /\ args \in ExportArgs
    /\ fstate \in {st \in FaultyStates :
                      \A i \in FileNodes : st[i] \in {"ok", "undecodable"}}
    /\ srcExists = TRUE
    /\ outInSource \in IF args.is_git THEN {FALSE} ELSE BOOLEAN
    /\ exporter = NewExporter(args, config_file, cfgFiles, gitignoreFile, now)
    /\ fsize \in {sz \in Sizes(Get(exporter.config, "max_file_size",
                                  DefaultMaxFileSize)) :
                     \A i \in FileNodes :
                         Nodes[i].name = S_M_PY => sz[i] = SizeLimit}
    /\ result = <<>>

NextTwice ==
    \/ CloneRepository
    \/ ExportStart
    \/ WalkDir
    \/ ProcessFile
    \/ ExportReturn
    \/ SecondRun

SpecTwice == InitTwice /\ [][NextTwice]_vars

\* C6 as stated: two completed runs on the same source and configuration,
\* neither with a failed output write and the second in a later second (so
\* that the file names differ), produce the same sequence of file
\* sections, also when the output is written into the walked directory.
C6_Original ==
    (/\ pc = "done"
     /\ run = 2
     /\ wfaults = 0
     /\ exporter.output_file # GenerateOutputFilename(1))
    => Sections(CurrentDoc) = prevSections

\* C6 amended: the same, when the output files are written outside the
\* walked source directory.
C6_SameSections ==
    (pc = "done" /\ run = 2 /\ wfaults = 0 /\ ~outInSource) =>
        Sections(CurrentDoc) = prevSections

\* a second run in a later second, output outside the tree, completed with
\* several sections after a first run that skipped an unreadable file
C6_Witness ==
    /\ pc = "done"
    /\ run = 2
    /\ wfaults = 0
    /\ ~outInSource
    /\ now = 2
    /\ Len(prevSections) >= 4
    /\ \E i \in FileNodes : fstate[i] = "undecodable" /\ i \in touched

====
